---- MODULE Spec2Model ----
(***************************************************************************)
(* ArcCell (src/src/lib.rs): one atomic pointer slot per handle, replaced  *)
(* by update (compare-and-set loop) and set (swap), read through           *)
(* ArcCellGuard, with retired values handed to crossbeam_epoch.            *)
(*                                                                         *)
(* The crossbeam_epoch calls are modelled by what the crate does:          *)
(*   pin()                 reentrant; the outermost pin records the global *)
(*                         epoch in the thread's Local, and the outermost  *)
(*                         pins number 0, 128, 256, ... of a thread run    *)
(*                         Global::collect;                                *)
(*   Guard::flush()        seals the thread's bag with the global epoch,   *)
(*                         pushes it on the global queue, then collect;    *)
(*   Guard::defer(f)       appends f to the thread's bag;                  *)
(*   Global::collect       try_advance (epoch + 1 unless some pinned       *)
(*                         thread is pinned in another epoch), then runs   *)
(*                         the sealed bags at the head of the queue that   *)
(*                         are at least two epochs old;                    *)
(*   Atomic::load/swap     the slot's pointer / the pointer swapped out;   *)
(*   Atomic::compare_and_set(current, new)                                 *)
(*                         "On success the pointer that was written is     *)
(*                         returned": Ok(new), not the pointer replaced;   *)
(*   Atomic::clone         "Returns a copy of the atomic value": a new     *)
(*                         slot holding the same pointer.                  *)
(* A read through a pointer whose object was freed is undefined: it yields *)
(* the contents of the address or Poison.                                  *)
(***************************************************************************)
EXTENDS Integers, Sequences, FiniteSets, TLC

\* ---- bounds ----
MaxOps == 3         \* calls started in one run (update, set, reclaim, load, drop)
MaxAddr == 4        \* heap addresses
MaxHandles == 2     \* ArcCell handles: the constructed one and its clones
MaxCalls == 3       \* SpecContend: update calls per thread
MaxWrites == 4      \* SpecReader: update and set calls of the writer
MaxLoads == 2       \* SpecReader: load calls of the reader
MaxRivals == 1      \* SpecWriters: update calls of the second writer

Threads == {"t1", "t2"}
Handles == 1..MaxHandles
Addr == 1..MaxAddr
InitVals == {0}
SetVals == {10}
Fns == {"inc", "evenInc"}

Null == 0
Poison == -1

VARIABLES
    cell,       \* [Handles -> {"none","live","dropped"}]: which ArcCell handles exist
    inner,      \* [Handles -> Addr \cup {Null}]: ArcCell.inner, the atomic pointer
    allocd,     \* [Addr -> BOOLEAN]: the address holds a live heap object
    mem,        \* [Addr -> Int]: contents of the address
    brk,        \* highest address ever handed out
    global,     \* crossbeam_epoch Global: [epoch, queue of sealed bags]
    local,      \* crossbeam_epoch Local per thread: [epoch, guard_count, pin_count, bag]
    pc,         \* position of each thread in its current call
    op,         \* the call each thread is in: [kind, h, fn, x, reclaim]
    shared,     \* update_fallible_inner: `shared`, the pointer of the last load
    r,          \* `r`: the pointer the call hands to guard.defer
    newp,       \* the Owned::new(..) of the current attempt
    result,     \* what the thread's last call returned: "none", "ok", "err"
    rguard,     \* the handle the thread's ArcCellGuard borrows (0: no guard)
    ref,        \* the &T the thread got from its guard's deref (Null: none)
    seen,       \* {} or {v}: what the thread read through ref
    \* history variables
    initVal,    \* the constructor's value
    gen,        \* [Handles -> Nat]: successful replacements of the slot
    val,        \* [Handles -> Int]: the value of the slot's latest generation
    installed,  \* values installed by some update/set call
    ev,         \* per thread: the replacement its current call made
    refVal,     \* per thread: val of the slot when ref was loaded
    refGen,     \* per thread: gen of the slot when ref was loaded
    guardGen,   \* per thread: gen of the slot when the guard was created
    protected,  \* per pinned thread: the pointers deferred since it pinned
    dangling,   \* handles whose current object has been freed
    staleRef,   \* threads whose ref points at a freed object
    staleShared,\* threads whose `shared` points at a freed object
    faults,     \* undefined behaviour so far, a subset of Faults
    loadGen,    \* per thread: gen of the slot at the current attempt's load
    loadVal,    \* per thread: val of the slot at the current attempt's load
    arg,        \* per thread: the value f was last invoked on
    calls,      \* per thread: invocations of f in the current call
    fails,      \* per thread: failed compare_and_set in the current call
    err,        \* per thread: the e of the Err(e) its last call returned (0: none)
    nops        \* calls started so far

heapVars == <<allocd, mem, brk>>
epochVars == <<global, local>>
callVars == <<pc, op, shared, r, newp, result>>
guardVars == <<rguard, ref, seen, refVal, refGen, guardGen>>
slotVars == <<cell, inner, gen, val, installed, ev>>
faultVars == <<dangling, staleRef, staleShared, faults>>
attemptVars == <<loadGen, loadVal, arg, calls, fails>>
vars == <<heapVars, epochVars, callVars, guardVars, slotVars, faultVars, attemptVars, err,
          protected, initVal, nops>>

Faults == {"double_free", "deref_freed", "update_freed", "freed_under_pin"}

NoOp == [kind |-> "none", h |-> 1, fn |-> "inc", x |-> 0, reclaim |-> FALSE]
NoEv == [kind |-> "none", h |-> 1, fn |-> "inc", x |-> 0, pre |-> 0, post |-> 0,
         pregen |-> 0, gen |-> 0]

Range(s) == {s[i] : i \in 1..Len(s)}

Max(a, b) == IF a >= b THEN a ELSE b

\* ---- the closures passed to update ----
\* "inc": |v| v + 1;  "evenInc": a fallible closure, Ok(v + 1) on an even v, Err on an odd
Apply(fn, v) ==
    IF fn = "inc" \/ v % 2 = 0 THEN [ok |-> TRUE, val |-> v + 1]
                               ELSE [ok |-> FALSE, val |-> v]

\* ---- crossbeam_epoch ----
\* Global::try_advance
TryAdvance(g, l) ==
    IF \E t \in Threads : l[t].guard_count > 0 /\ l[t].epoch # g.epoch
    THEN g.epoch
    ELSE g.epoch + 1

\* the condition of Global::collect: a bag within one epoch of the current one stays
IsExpired(ep, sealed) == ep - sealed.epoch >= 2

RECURSIVE ExpiredPrefix(_, _)
ExpiredPrefix(ep, q) ==
    IF q = <<>> \/ ~IsExpired(ep, Head(q)) THEN 0
    ELSE 1 + ExpiredPrefix(ep, Tail(q))

RECURSIVE Flatten(_)
Flatten(bags) ==
    IF bags = <<>> THEN <<>> ELSE Head(bags).items \o Flatten(Tail(bags))

\* Global::collect: the new Global and the deferred destructions it runs
Collect(g, l) ==
    LET ep == TryAdvance(g, l)
        n == ExpiredPrefix(ep, g.queue)
    IN [global |-> [epoch |-> ep, queue |-> SubSeq(g.queue, n + 1, Len(g.queue))],
        garbage |-> Flatten(SubSeq(g.queue, 1, n))]

\* Global::push_bag of the thread's bag (Local::flush pushes a non-empty bag only)
PushBag(g, l, t) ==
    IF l[t].bag = <<>> THEN g
    ELSE [g EXCEPT !.queue = Append(@, [epoch |-> g.epoch, items |-> l[t].bag])]

\* Local::pin: the outermost pin records the global epoch
PinLocal(g, l, t) ==
    IF l[t].guard_count = 0
    THEN [l EXCEPT ![t].guard_count = 1, ![t].epoch = g.epoch, ![t].pin_count = @ + 1]
    ELSE [l EXCEPT ![t].guard_count = @ + 1]

\* Local::pin: whether this pin runs Global::collect (PINNINGS_BETWEEN_COLLECT = 128)
PinCollects(l, t) == l[t].guard_count = 0 /\ l[t].pin_count % 128 = 0

\* Local::unpin (Guard::drop)
UnpinLocal(l, t) ==
    IF l[t].guard_count = 1
    THEN [l EXCEPT ![t].guard_count = 0, ![t].epoch = 0]
    ELSE [l EXCEPT ![t].guard_count = @ - 1]

\* the pointers deferred since the thread pinned: none once it is unpinned
Unprotect(l, t) == [protected EXCEPT ![t] = IF l[t].guard_count = 0 THEN {} ELSE @]

\* ---- the heap ----
\* running `r.into_owned()` for every pointer of `garbage`
DoubleFree(garbage) ==
    \/ \E i \in 1..Len(garbage) : ~allocd[garbage[i]]
    \/ \E i, j \in 1..Len(garbage) : i # j /\ garbage[i] = garbage[j]

\* a pointer is freed that was deferred while a still pinned thread was pinned
FreedUnderPin(garbage) ==
    \E t \in Threads : local[t].guard_count > 0 /\ protected[t] \cap Range(garbage) # {}

Free(garbage) ==
    /\ allocd' = [a \in Addr |-> allocd[a] /\ a \notin Range(garbage)]
    /\ faults' = faults \cup (IF DoubleFree(garbage) THEN {"double_free"} ELSE {})
                        \cup (IF FreedUnderPin(garbage) THEN {"freed_under_pin"} ELSE {})
    /\ dangling' = dangling \cup
           {h \in Handles : cell[h] = "live" /\ inner[h] \in Range(garbage)}
    /\ staleRef' = staleRef \cup {t \in Threads : ref[t] \in Range(garbage)}
    /\ staleShared' = staleShared \cup
           {t \in Threads : pc[t] = "call" /\ shared[t] \in Range(garbage)}

\* the addresses the allocator may return: a freed one, or the next unused one
AllocChoices == {a \in Addr : ~allocd[a] /\ a <= brk + 1}

\* what a read through pointer a yields
ReadSet(a, stale) == IF stale THEN {mem[a], Poison} ELSE {mem[a]}

ReadFault(stale, what) == IF stale THEN {what} ELSE {}

\* crossbeam_epoch::pin() as called by thread t
Pin(t) ==
    LET l1 == PinLocal(global, local, t)
        c == Collect(global, l1)
    IN /\ local' = l1
       /\ IF PinCollects(local, t)
          THEN /\ global' = c.global
               /\ Free(c.garbage)
          ELSE /\ global' = global
               /\ Free(<<>>)
       /\ UNCHANGED <<mem, brk, protected>>

TypeOK ==
    /\ cell \in [Handles -> {"none", "live", "dropped"}]
    /\ inner \in [Handles -> Addr \cup {Null}]
    /\ allocd \in [Addr -> BOOLEAN]
    /\ brk \in Addr
    /\ \A t \in Threads : local[t].guard_count >= 0
    /\ faults \subseteq Faults

Init ==
    /\ initVal \in InitVals
    /\ cell = [h \in Handles |-> IF h = 1 THEN "live" ELSE "none"]
    /\ inner = [h \in Handles |-> IF h = 1 THEN 1 ELSE Null]
    /\ allocd = [a \in Addr |-> a = 1]
    /\ mem = [a \in Addr |-> IF a = 1 THEN initVal ELSE 0]
    /\ brk = 1
    /\ global = [epoch |-> 0, queue |-> <<>>]
    /\ local = [t \in Threads |->
                  [epoch |-> 0, guard_count |-> 0, pin_count |-> 0, bag |-> <<>>]]
    /\ pc = [t \in Threads |-> "idle"]
    /\ op = [t \in Threads |-> NoOp]
    /\ shared = [t \in Threads |-> Null]
    /\ r = [t \in Threads |-> Null]
    /\ newp = [t \in Threads |-> Null]
    /\ result = [t \in Threads |-> "none"]
    /\ rguard = [t \in Threads |-> 0]
    /\ ref = [t \in Threads |-> Null]
    /\ seen = [t \in Threads |-> {}]
    /\ gen = [h \in Handles |-> 0]
    /\ val = [h \in Handles |-> initVal]
    /\ installed = {}
    /\ ev = [t \in Threads |-> NoEv]
    /\ refVal = [t \in Threads |-> 0]
    /\ refGen = [t \in Threads |-> 0]
    /\ guardGen = [t \in Threads |-> 0]
    /\ protected = [t \in Threads |-> {}]
    /\ dangling = {}
    /\ staleRef = {}
    /\ staleShared = {}
    /\ faults = {}
    /\ loadGen = [t \in Threads |-> 0]
    /\ loadVal = [t \in Threads |-> 0]
    /\ arg = [t \in Threads |-> 0]
    /\ calls = [t \in Threads |-> 0]
    /\ fails = [t \in Threads |-> 0]
    /\ err = [t \in Threads |-> 0]
    /\ nops = 0

\* a thread may start a call on a live handle; the threads being interchangeable, the
\* run's first call is t1's
CanStart(t, h) ==
    /\ pc[t] = "idle"
    /\ cell[h] = "live"
    /\ nops < MaxOps
    /\ nops = 0 => t = "t1"

\* ---- update_fallible_inner (update, update_fallible and the _no_reclaim variants) ----
\* line 88: let guard = crossbeam_epoch::pin();
UpdateBegin(t, h, fn, reclaim) ==
    /\ Pin(t)
    /\ pc' = [pc EXCEPT ![t] = IF reclaim THEN "flush" ELSE "load"]
    /\ op' = [op EXCEPT ![t] = [kind |-> "update", h |-> h, fn |-> fn, x |-> 0,
                                reclaim |-> reclaim]]
    /\ result' = [result EXCEPT ![t] = "none"]
    /\ ev' = [ev EXCEPT ![t] = NoEv]
    /\ UNCHANGED <<shared, r, newp, guardVars, cell, inner, gen, val, installed, initVal>>
    /\ err' = [err EXCEPT ![t] = 0]
    /\ UNCHANGED attemptVars
UpdatePin(t, h, fn, reclaim) ==
    /\ CanStart(t, h)
    /\ UpdateBegin(t, h, fn, reclaim)
    /\ nops' = nops + 1

\* lines 90, 161, 188: guard.flush()
Flush(t) ==
    /\ pc[t] = "flush"
    /\ LET g1 == PushBag(global, local, t)
           l1 == [local EXCEPT ![t].bag = <<>>]
           c == Collect(g1, l1)
       IN /\ local' = l1
          /\ global' = c.global
          /\ Free(c.garbage)
    /\ pc' = [pc EXCEPT ![t] = CASE op[t].kind = "update" -> "load"
                                 [] op[t].kind = "set" -> "swap"
                                 [] OTHER -> "ret"]
    /\ result' = [result EXCEPT ![t] = IF op[t].kind = "reclaim" THEN "ok" ELSE @]
    /\ UNCHANGED <<mem, brk, op, shared, r, newp, guardVars, slotVars, protected,
                   initVal, nops>>
    /\ UNCHANGED <<attemptVars, err>>

\* line 93: let shared = self.inner.load(Acquire, &guard);
UpdateLoad(t) ==
    /\ pc[t] = "load"
    /\ shared' = [shared EXCEPT ![t] = inner[op[t].h]]
    /\ staleShared' = IF op[t].h \in dangling THEN staleShared \cup {t}
                                              ELSE staleShared \ {t}
    /\ pc' = [pc EXCEPT ![t] = "call"]
    /\ UNCHANGED <<heapVars, epochVars, op, r, newp, result, guardVars, slotVars,
                   dangling, staleRef, faults, protected, initVal, nops>>
    /\ loadGen' = [loadGen EXCEPT ![t] = gen[op[t].h]]
    /\ loadVal' = [loadVal EXCEPT ![t] = val[op[t].h]]
    /\ UNCHANGED <<arg, calls, fails, err>>

\* UpdateCall with a defer of the loaded pointer ahead of the `?`: a failed closure
\* would then retire the value it was given
UpdateCallRetiresOnErr(t) ==
    /\ pc[t] = "call"
    /\ faults' = faults \cup ReadFault(t \in staleShared, "update_freed")
    /\ \E v \in ReadSet(shared[t], t \in staleShared) :
         LET res == Apply(op[t].fn, v)
         IN /\ arg' = [arg EXCEPT ![t] = v]
            /\ IF res.ok
               THEN \E a \in AllocChoices :
                      /\ allocd' = [allocd EXCEPT ![a] = TRUE]
                      /\ mem' = [mem EXCEPT ![a] = res.val]
                      /\ brk' = Max(brk, a)
                      /\ newp' = [newp EXCEPT ![t] = a]
                      /\ pc' = [pc EXCEPT ![t] = "cas"]
                      /\ UNCHANGED <<result, err, epochVars>>
               ELSE /\ result' = [result EXCEPT ![t] = "err"]
                    /\ err' = [err EXCEPT ![t] = res.val]
                    /\ pc' = [pc EXCEPT ![t] = "ret"]
                    /\ local' = [local EXCEPT ![t].bag = Append(@, shared[t])]
                    /\ UNCHANGED <<heapVars, newp, global>>
    /\ calls' = [calls EXCEPT ![t] = @ + 1]
    /\ UNCHANGED <<op, shared, r, guardVars, slotVars, dangling, staleRef,
                   staleShared, protected, initVal, nops, loadGen, loadVal, fails>>

\* lines 94-95 and the Owned::new(t) of line 97: read *shared, run f; on Err return
\* it (the `?`), otherwise box the result
UpdateCall(t) ==
    /\ pc[t] = "call"
    /\ faults' = faults \cup ReadFault(t \in staleShared, "update_freed")
    /\ \E v \in ReadSet(shared[t], t \in staleShared) :
         LET res == Apply(op[t].fn, v)
         IN /\ arg' = [arg EXCEPT ![t] = v]
            /\ IF res.ok
               THEN \E a \in AllocChoices :
                      /\ allocd' = [allocd EXCEPT ![a] = TRUE]
                      /\ mem' = [mem EXCEPT ![a] = res.val]
                      /\ brk' = Max(brk, a)
                      /\ newp' = [newp EXCEPT ![t] = a]
                      /\ pc' = [pc EXCEPT ![t] = "cas"]
                      /\ UNCHANGED <<result, err>>
               ELSE /\ result' = [result EXCEPT ![t] = "err"]
                    /\ err' = [err EXCEPT ![t] = res.val]
                    /\ pc' = [pc EXCEPT ![t] = "ret"]
                    /\ UNCHANGED <<heapVars, newp>>
    /\ calls' = [calls EXCEPT ![t] = @ + 1]
    /\ UNCHANGED <<epochVars, op, shared, r, guardVars, slotVars, dangling, staleRef,
                   staleShared, protected, initVal, nops, loadGen, loadVal, fails>>

\* a compare_and_set that fails although the slot holds `current`
CasFailsSpuriously(slot, current) == FALSE

\* Atomic::compare_and_set: it writes `new` when the slot holds `current`
CasSucceeds(slot, current) == slot = current

\* ... and on success returns the pointer that was written
CasOk(current, new) == new

\* UpdateCas with the Err of compare_and_set handed to the caller in place of a retry
UpdateCasReturnsErr(t) ==
    /\ pc[t] = "cas"
    /\ LET h == op[t].h IN
       IF CasSucceeds(inner[h], shared[t])
       THEN /\ inner' = [inner EXCEPT ![h] = newp[t]]
            /\ r' = [r EXCEPT ![t] = CasOk(shared[t], newp[t])]
            /\ gen' = [gen EXCEPT ![h] = @ + 1]
            /\ val' = [val EXCEPT ![h] = mem[newp[t]]]
            /\ installed' = installed \cup {mem[newp[t]]}
            /\ ev' = [ev EXCEPT ![t] = [kind |-> "update", h |-> h, fn |-> op[t].fn,
                                        x |-> 0, pre |-> val[h], post |-> mem[newp[t]],
                                        pregen |-> gen[h], gen |-> gen'[h]]]
            /\ dangling' = IF allocd[newp[t]] THEN dangling \ {h} ELSE dangling \cup {h}
            /\ pc' = [pc EXCEPT ![t] = "defer"]
            /\ UNCHANGED result
            /\ UNCHANGED <<allocd, newp, staleRef, staleShared, faults, fails>>
       ELSE /\ Free(<<newp[t]>>)
            /\ fails' = [fails EXCEPT ![t] = @ + 1]
            /\ newp' = [newp EXCEPT ![t] = Null]
            /\ pc' = [pc EXCEPT ![t] = "ret"]
            /\ result' = [result EXCEPT ![t] = "err"]
            /\ UNCHANGED <<inner, r, gen, val, installed, ev>>
    /\ UNCHANGED <<mem, brk, epochVars, op, shared, guardVars, cell, protected,
                   initVal, nops>>
    /\ UNCHANGED <<loadGen, loadVal, arg, calls, err>>

\* lines 96-98: compare_and_set(shared, Owned::new(t), AcqRel, &guard); on failure
\* the error, and the Owned in it, is dropped and the loop goes round
UpdateCas(t) ==
    /\ pc[t] = "cas"
    /\ LET h == op[t].h IN
       IF CasSucceeds(inner[h], shared[t])
       THEN /\ inner' = [inner EXCEPT ![h] = newp[t]]
            /\ r' = [r EXCEPT ![t] = CasOk(shared[t], newp[t])]
            /\ gen' = [gen EXCEPT ![h] = @ + 1]
            /\ val' = [val EXCEPT ![h] = mem[newp[t]]]
            /\ installed' = installed \cup {mem[newp[t]]}
            /\ ev' = [ev EXCEPT ![t] = [kind |-> "update", h |-> h, fn |-> op[t].fn,
                                        x |-> 0, pre |-> val[h], post |-> mem[newp[t]],
                                        pregen |-> gen[h], gen |-> gen'[h]]]
            /\ dangling' = IF allocd[newp[t]] THEN dangling \ {h} ELSE dangling \cup {h}
            /\ pc' = [pc EXCEPT ![t] = "defer"]
            /\ UNCHANGED <<allocd, newp, staleRef, staleShared, faults, fails>>
       ELSE /\ Free(<<newp[t]>>)
            /\ fails' = [fails EXCEPT ![t] = @ + 1]
            /\ newp' = [newp EXCEPT ![t] = Null]
            /\ pc' = [pc EXCEPT ![t] = "load"]
            /\ UNCHANGED <<inner, r, gen, val, installed, ev>>
    /\ UNCHANGED <<mem, brk, epochVars, op, shared, result, guardVars, cell, protected,
                   initVal, nops>>
    /\ UNCHANGED <<loadGen, loadVal, arg, calls, err>>

\* lines 99 and 164: unsafe { guard.defer(move || r.into_owned()) }
Defer(t) ==
    /\ pc[t] = "defer"
    /\ local' = [local EXCEPT ![t].bag = Append(@, r[t])]
    /\ protected' = [u \in Threads |->
                       IF local[u].guard_count > 0 THEN protected[u] \cup {r[t]}
                                                   ELSE protected[u]]
    /\ result' = [result EXCEPT ![t] = "ok"]
    /\ pc' = [pc EXCEPT ![t] = "ret"]
    /\ UNCHANGED <<heapVars, global, op, shared, r, newp, guardVars, slotVars, faultVars,
                   initVal, nops>>
    /\ UNCHANGED <<attemptVars, err>>

\* the call returns: `guard` goes out of scope
Unpin(t) ==
    /\ pc[t] = "ret"
    /\ local' = UnpinLocal(local, t)
    /\ protected' = Unprotect(local', t)
    /\ pc' = [pc EXCEPT ![t] = "idle"]
    /\ op' = [op EXCEPT ![t] = NoOp]
    /\ ev' = [ev EXCEPT ![t] = NoEv]
    /\ shared' = [shared EXCEPT ![t] = Null]
    /\ r' = [r EXCEPT ![t] = Null]
    /\ newp' = [newp EXCEPT ![t] = Null]
    /\ staleShared' = staleShared \ {t}
    /\ UNCHANGED <<heapVars, global, result, guardVars, cell, inner, gen, val, installed,
                   dangling, staleRef, faults, initVal, nops>>
    /\ loadGen' = [loadGen EXCEPT ![t] = 0]
    /\ loadVal' = [loadVal EXCEPT ![t] = 0]
    /\ arg' = [arg EXCEPT ![t] = 0]
    /\ calls' = [calls EXCEPT ![t] = 0]
    /\ fails' = [fails EXCEPT ![t] = 0]
    /\ UNCHANGED err

\* ---- set_inner (set and set_no_reclaim) ----
\* line 159
SetBegin(t, h, x, reclaim) ==
    /\ Pin(t)
    /\ pc' = [pc EXCEPT ![t] = IF reclaim THEN "flush" ELSE "swap"]
    /\ op' = [op EXCEPT ![t] = [kind |-> "set", h |-> h, fn |-> "inc", x |-> x,
                                reclaim |-> reclaim]]
    /\ result' = [result EXCEPT ![t] = "none"]
    /\ ev' = [ev EXCEPT ![t] = NoEv]
    /\ UNCHANGED <<shared, r, newp, guardVars, cell, inner, gen, val, installed, initVal>>
    /\ err' = [err EXCEPT ![t] = 0]
    /\ UNCHANGED attemptVars
SetPin(t, h, x, reclaim) ==
    /\ CanStart(t, h)
    /\ SetBegin(t, h, x, reclaim)
    /\ nops' = nops + 1

\* a swap that leaves the slot as it was
SwapStoreKeeps(slot, new) == slot

\* Atomic::swap: the pointer the slot holds afterwards
SwapStore(slot, new) == new

\* a set that holds back while another writer is between its replacement and its defer
SetSwapWaits(t) ==
    /\ pc[t] = "swap"
    /\ \A u \in Threads \ {t} : pc[u] # "defer"
    /\ LET h == op[t].h IN
       \E a \in AllocChoices :
         /\ allocd' = [allocd EXCEPT ![a] = TRUE]
         /\ mem' = [mem EXCEPT ![a] = op[t].x]
         /\ brk' = Max(brk, a)
         /\ newp' = [newp EXCEPT ![t] = a]
         /\ r' = [r EXCEPT ![t] = inner[h]]
         /\ inner' = [inner EXCEPT ![h] = SwapStore(inner[h], a)]
         /\ gen' = [gen EXCEPT ![h] = @ + 1]
         /\ val' = [val EXCEPT ![h] = mem'[inner'[h]]]
         /\ installed' = installed \cup {mem'[inner'[h]]}
         /\ ev' = [ev EXCEPT ![t] = [kind |-> "set", h |-> h, fn |-> "inc",
                                     x |-> op[t].x, pre |-> val[h],
                                     post |-> mem'[inner'[h]],
                                     pregen |-> gen[h], gen |-> gen'[h]]]
         /\ dangling' = IF inner'[h] = a THEN dangling \ {h} ELSE dangling
    /\ pc' = [pc EXCEPT ![t] = "defer"]
    /\ UNCHANGED <<epochVars, op, shared, result, guardVars, cell, staleRef, staleShared,
                   faults, protected, initVal, nops>>
    /\ UNCHANGED <<attemptVars, err>>

\* line 163: let r = self.inner.swap(Owned::new(data), Release, &guard);
SetSwap(t) ==
    /\ pc[t] = "swap"
    /\ LET h == op[t].h IN
       \E a \in AllocChoices :
         /\ allocd' = [allocd EXCEPT ![a] = TRUE]
         /\ mem' = [mem EXCEPT ![a] = op[t].x]
         /\ brk' = Max(brk, a)
         /\ newp' = [newp EXCEPT ![t] = a]
         /\ r' = [r EXCEPT ![t] = inner[h]]
         /\ inner' = [inner EXCEPT ![h] = SwapStore(inner[h], a)]
         /\ gen' = [gen EXCEPT ![h] = @ + 1]
         /\ val' = [val EXCEPT ![h] = mem'[inner'[h]]]
         /\ installed' = installed \cup {mem'[inner'[h]]}
         /\ ev' = [ev EXCEPT ![t] = [kind |-> "set", h |-> h, fn |-> "inc",
                                     x |-> op[t].x, pre |-> val[h],
                                     post |-> mem'[inner'[h]],
                                     pregen |-> gen[h], gen |-> gen'[h]]]
         /\ dangling' = IF inner'[h] = a THEN dangling \ {h} ELSE dangling
    /\ pc' = [pc EXCEPT ![t] = "defer"]
    /\ UNCHANGED <<epochVars, op, shared, result, guardVars, cell, staleRef, staleShared,
                   faults, protected, initVal, nops>>
    /\ UNCHANGED <<attemptVars, err>>

\* ---- reclaim ----
\* line 187
ReclaimPin(t, h) ==
    /\ CanStart(t, h)
    /\ Pin(t)
    /\ pc' = [pc EXCEPT ![t] = "flush"]
    /\ op' = [op EXCEPT ![t] = [kind |-> "reclaim", h |-> h, fn |-> "inc", x |-> 0,
                                reclaim |-> TRUE]]
    /\ result' = [result EXCEPT ![t] = "none"]
    /\ ev' = [ev EXCEPT ![t] = NoEv]
    /\ nops' = nops + 1
    /\ UNCHANGED <<shared, r, newp, guardVars, cell, inner, gen, val, installed, initVal>>
    /\ err' = [err EXCEPT ![t] = 0]
    /\ UNCHANGED attemptVars

\* ---- load and ArcCellGuard ----
\* lines 219-224: ArcCellGuard { parent: self, inner: crossbeam_epoch::pin() }
LoadBegin(t, h) ==
    /\ rguard[t] = 0
    /\ Pin(t)
    /\ rguard' = [rguard EXCEPT ![t] = h]
    /\ guardGen' = [guardGen EXCEPT ![t] = gen[h]]
    /\ UNCHANGED <<callVars, ref, seen, refVal, refGen, slotVars, initVal>>
    /\ UNCHANGED <<attemptVars, err>>
Load(t, h) ==
    /\ CanStart(t, h)
    /\ LoadBegin(t, h)
    /\ nops' = nops + 1

\* line 271: let shared = self.parent.inner.load(Acquire, &self.inner);
Deref(t) ==
    /\ pc[t] = "idle"
    /\ rguard[t] # 0
    /\ ref' = [ref EXCEPT ![t] = inner[rguard[t]]]
    /\ refVal' = [refVal EXCEPT ![t] = val[rguard[t]]]
    /\ refGen' = [refGen EXCEPT ![t] = gen[rguard[t]]]
    /\ seen' = [seen EXCEPT ![t] = {}]
    /\ staleRef' = IF rguard[t] \in dangling THEN staleRef \cup {t} ELSE staleRef \ {t}
    /\ UNCHANGED <<heapVars, epochVars, callVars, rguard, guardGen, slotVars, dangling,
                   staleShared, faults, protected, initVal, nops>>
    /\ UNCHANGED <<attemptVars, err>>

\* line 272: the caller reads through the &T that deref returned
Read(t) ==
    /\ pc[t] = "idle"
    /\ ref[t] # Null
    /\ seen[t] = {}
    /\ \E v \in ReadSet(ref[t], t \in staleRef) : seen' = [seen EXCEPT ![t] = {v}]
    /\ faults' = faults \cup ReadFault(t \in staleRef, "deref_freed")
    /\ UNCHANGED <<heapVars, epochVars, callVars, rguard, ref, refVal, refGen, guardGen,
                   slotVars, dangling, staleRef, staleShared, protected, initVal, nops>>
    /\ UNCHANGED <<attemptVars, err>>

\* the ArcCellGuard goes out of scope, and with it every &T borrowed from it
GuardDrop(t) ==
    /\ pc[t] = "idle"
    /\ rguard[t] # 0
    /\ local' = UnpinLocal(local, t)
    /\ protected' = Unprotect(local', t)
    /\ rguard' = [rguard EXCEPT ![t] = 0]
    /\ ref' = [ref EXCEPT ![t] = Null]
    /\ seen' = [seen EXCEPT ![t] = {}]
    /\ staleRef' = staleRef \ {t}
    /\ UNCHANGED <<heapVars, global, callVars, refVal, refGen, guardGen, slotVars,
                   dangling, staleShared, faults, initVal, nops>>
    /\ UNCHANGED <<attemptVars, err>>

\* ---- Clone and Drop ----
\* Atomic::clone: a new Atomic holding a copy of the pointer
AtomicClone(slot) == slot

\* lines 252-256: ArcCell { inner: self.inner.clone() }
Clone(t, h) ==
    /\ pc[t] = "idle"
    /\ cell[h] = "live"
    /\ \E h2 \in Handles :
         /\ cell[h2] = "none"
         /\ \A k \in Handles : k < h2 => cell[k] # "none"
         /\ cell' = [cell EXCEPT ![h2] = "live"]
         /\ inner' = [inner EXCEPT ![h2] = AtomicClone(inner[h])]
         /\ gen' = [gen EXCEPT ![h2] = gen[h]]
         /\ val' = [val EXCEPT ![h2] = val[h]]
         /\ dangling' = IF h \in dangling THEN dangling \cup {h2} ELSE dangling
    /\ UNCHANGED <<heapVars, epochVars, callVars, guardVars, installed, ev, staleRef,
                   staleShared, faults, protected, initVal, nops>>
    /\ UNCHANGED <<attemptVars, err>>

\* no ArcCellGuard borrows the handle and no call on it is running: the borrow
\* checker's condition for moving the handle into drop
Unborrowed(h) ==
    \A t \in Threads : rguard[t] # h /\ (pc[t] # "idle" => op[t].h # h)

\* lines 242-248: pin, load the pointer, shared.into_owned(), and the guard drops
Drop(t, h) ==
    /\ CanStart(t, h)
    /\ Unborrowed(h)
    /\ LET l1 == PinLocal(global, local, t)
           c == Collect(global, l1)
           garbage == IF PinCollects(local, t) THEN c.garbage ELSE <<>>
       IN /\ global' = IF PinCollects(local, t) THEN c.global ELSE global
          /\ local' = UnpinLocal(l1, t)
          /\ Free(garbage \o <<inner[h]>>)
    /\ cell' = [cell EXCEPT ![h] = "dropped"]
    /\ nops' = nops + 1
    /\ UNCHANGED <<mem, brk, callVars, guardVars, inner, gen, val, installed, ev,
                   protected, initVal>>
    /\ UNCHANGED <<attemptVars, err>>

\* ---- the specifications ----
\* the steps inside a call
Step ==
    \/ \E t \in Threads : Flush(t)
    \/ \E t \in Threads : UpdateLoad(t)
    \/ \E t \in Threads : UpdateCall(t)
    \/ \E t \in Threads : UpdateCas(t)
    \/ \E t \in Threads : SetSwap(t)
    \/ \E t \in Threads : Defer(t)
    \/ \E t \in Threads : Unpin(t)

\* threads sharing one ArcCell by reference, which is dropped in the end
Next ==
    \/ \E t \in Threads, h \in Handles, fn \in Fns, reclaim \in BOOLEAN :
         UpdatePin(t, h, fn, reclaim)
    \/ \E t \in Threads, h \in Handles, x \in SetVals, reclaim \in BOOLEAN :
         SetPin(t, h, x, reclaim)
    \/ \E t \in Threads, h \in Handles : ReclaimPin(t, h)
    \/ Step
    \/ \E t \in Threads, h \in Handles : Load(t, h)
    \/ \E t \in Threads : Deref(t)
    \/ \E t \in Threads : Read(t)
    \/ \E t \in Threads : GuardDrop(t)
    \/ \E t \in Threads, h \in Handles : Drop(t, h)

Spec == Init /\ [][Next]_vars

\* the steps of thread t inside the call it is in
ThreadStep(t) ==
    \/ Flush(t)
    \/ UpdateLoad(t)
    \/ UpdateCall(t)
    \/ UpdateCas(t)
    \/ SetSwap(t)
    \/ Defer(t)
    \/ Unpin(t)

\* a thread that is inside a call is scheduled again: it takes its next step
SpecFair == Spec /\ \A t \in Threads : WF_vars(ThreadStep(t))

\* the same, with handles cloned
NextClone ==
    \/ Next
    \/ \E t \in Threads, h \in Handles : Clone(t, h)

SpecClone == Init /\ [][NextClone]_vars

\* every thread calls update(|v| v + 1) MaxCalls times on the one cell, and nothing else
ContendUpdate(t) ==
    /\ pc[t] = "idle"
    /\ local[t].pin_count < MaxCalls
    /\ UpdateBegin(t, 1, "inc", TRUE)
    /\ UNCHANGED nops

NextContend ==
    \/ \E t \in Threads : ContendUpdate(t)
    \/ \E t \in Threads : Flush(t)
    \/ \E t \in Threads : UpdateLoad(t)
    \/ \E t \in Threads : UpdateCall(t)
    \/ \E t \in Threads : UpdateCas(t)
    \/ \E t \in Threads : Defer(t)
    \/ \E t \in Threads : Unpin(t)

SpecContend == Init /\ [][NextContend]_vars

\* a writer thread calls update(|v| v + 1) and set(x), MaxWrites calls in all, while a
\* reader thread takes guards and dereferences them
WriterUpdate(t) ==
    /\ pc[t] = "idle"
    /\ local[t].pin_count < MaxWrites
    /\ UpdateBegin(t, 1, "inc", TRUE)
    /\ UNCHANGED nops

WriterSet(t, x) ==
    /\ pc[t] = "idle"
    /\ local[t].pin_count < MaxWrites
    /\ SetBegin(t, 1, x, TRUE)
    /\ UNCHANGED nops

ReaderLoad(t) ==
    /\ local[t].pin_count < MaxLoads
    /\ LoadBegin(t, 1)
    /\ UNCHANGED nops

NextReader ==
    \/ WriterUpdate("t1")
    \/ \E x \in SetVals : WriterSet("t1", x)
    \/ Step
    \/ ReaderLoad("t2")
    \/ Deref("t2")
    \/ Read("t2")
    \/ GuardDrop("t2")

SpecReader == Init /\ [][NextReader]_vars

\* a writer thread calls update(|v| v + 1) and set(x), MaxWrites calls in all, while a
\* second writer calls update or update_no_reclaim MaxRivals times
RivalUpdate(t, reclaim) ==
    /\ pc[t] = "idle"
    /\ local[t].pin_count < MaxRivals
    /\ UpdateBegin(t, 1, "inc", reclaim)
    /\ UNCHANGED nops

NextWriters ==
    \/ WriterUpdate("t1")
    \/ \E x \in SetVals : WriterSet("t1", x)
    \/ Step
    \/ \E reclaim \in BOOLEAN : RivalUpdate("t2", reclaim)

SpecWriters == Init /\ [][NextWriters]_vars

\* ---- the claims ----
\* the cell's value: what a read through the slot's pointer finds
CellValue(h) == mem[inner[h]]

\* C1: the value a successful update(f) installs is f applied to the value that was the
\* slot's current value immediately before the successful compare-and-set, and the
\* successful replacements of a slot are totally ordered (no two share a generation).
C1_UpdateLinearizable ==
    \A t \in Threads :
        ev[t].kind = "update" =>
            /\ ev[t].post = Apply(ev[t].fn, ev[t].pre).val
            /\ ev[t].gen = ev[t].pregen + 1
            /\ \A u \in Threads \ {t} :
                 ev[u].kind # "none" /\ ev[u].h = ev[t].h => ev[u].gen # ev[t].gen

\* C2: when every thread has called update(|v| v + 1) the same number K of times and
\* all the calls have returned, the cell's value is the initial value + N * K.
C2_NoLostUpdate ==
    \A k \in 1..MaxCalls :
        (\A t \in Threads : pc[t] = "idle" /\ local[t].pin_count = k)
            => CellValue(1) = initVal + Cardinality(Threads) * k

\* C3: a handle and its clone refer to the same slot: they hold the same pointer, and
\* the value installed through one is the current value of the other.
C3_CloneSharesSlot ==
    \A h1, h2 \in Handles :
        cell[h1] = "live" /\ cell[h2] = "live"
            => inner[h1] = inner[h2] /\ val[h1] = val[h2]

\* C4: no retired value is freed while a guard or call pinned before its retirement is
\* alive, and no read through a live guard's reference finds a freed value.
C4_NoPrematureFree ==
    /\ "freed_under_pin" \notin faults
    /\ "deref_freed" \notin faults

\* C5: a call whose closure returns an error leaves the cell untouched: the failing
\* step and the return change neither slot nor heap nor the deferred pointers, and
\* the call has installed nothing.
C5_ErrLeavesCellUntouched ==
    /\ [](\A t \in Threads : pc[t] = "ret" /\ result[t] = "err" => ev[t].kind = "none")
    /\ [][\A t \in Threads :
            \/ pc[t] = "call" /\ pc'[t] = "ret"
            \/ pc[t] = "ret" /\ result[t] = "err" /\ pc'[t] = "idle"
            => /\ inner' = inner /\ gen' = gen /\ val' = val
               /\ allocd' = allocd /\ mem' = mem
               /\ global' = global /\ local'[t].bag = local[t].bag]_vars

C5_Witness ==
    \E t \in Threads :
        /\ pc[t] = "ret" /\ result[t] = "err"
        /\ op[t].kind = "update" /\ op[t].fn = "evenInc"
        /\ gen[1] > 0

C7_DerefInstalled ==
    \A t \in Threads :
        seen[t] # {} => seen[t] \subseteq ({initVal} \cup installed) /\ seen[t] = {refVal[t]}

\* C8: a guard caches no value: a dereference made after the slot was replaced under the
\* guard returns the value installed, the slot's current one at that dereference.
C8_GuardNotSnapshot ==
    \A t \in Threads :
        rguard[t] # 0 /\ seen[t] # {} /\ refGen[t] > guardGen[t] => seen[t] = {refVal[t]}

\* C9: no value is freed twice, and dropping the cell frees its current value directly.
C9_FreedOnce ==
    /\ "double_free" \notin faults
    /\ cell[1] = "dropped" => ~allocd[inner[1]]

\* C10: the pointer of a live cell is never null and points at a live value.
C10_SlotLive ==
    \A h \in Handles :
        cell[h] = "live" => inner[h] # Null /\ allocd[inner[h]] /\ h \notin dangling

\* C11: a compare_and_set of update fails only when the slot was replaced since that
\* attempt's load, and, the other threads making finitely many replacements, every
\* update call returns.
C11_LockFree ==
    /\ [][\A t \in Threads :
            pc[t] = "cas" /\ pc'[t] = "load" => gen[op[t].h] > loadGen[t]]_vars
    /\ \A t \in Threads : (op[t].kind = "update") ~> (pc[t] = "idle")

\* an update call that has retried twice, once per replacement made by the other thread
C11_Witness ==
    \E t \in Threads : op[t].kind = "update" /\ fails[t] >= 2 /\ calls[t] >= 3

\* the order of the positions of a set call
SetRank(p) ==
    CASE p = "flush" -> 1 [] p = "swap" -> 2 [] p = "defer" -> 3 [] p = "ret" -> 4
      [] OTHER -> 5

\* C12: load and set neither retry nor wait: a load is one pin, which leaves the guard
\* in the caller's hands at once; a set call always has its next step enabled, moves
\* only forward, and returns having swapped once and deferred once.
C12_LoadSetWaitFree ==
    /\ [](\A t \in Threads : op[t].kind = "set" => ENABLED ThreadStep(t))
    /\ [](\A t \in Threads :
            op[t].kind = "set" /\ pc[t] = "ret"
                => /\ ev[t].kind = "set"
                   /\ local[t].bag # <<>>
                   /\ local[t].bag[Len(local[t].bag)] = r[t])
    /\ [][\A t \in Threads :
            /\ op[t].kind = "set" /\ pc'[t] # pc[t] => SetRank(pc'[t]) = SetRank(pc[t]) + 1
            /\ rguard[t] = 0 /\ rguard'[t] # 0
                 => /\ pc'[t] = "idle"
                    /\ local'[t].guard_count = local[t].guard_count + 1
                    /\ inner' = inner]_vars

\* a set call returning, the other thread having replaced the slot just before its swap
C12_Witness ==
    \E t, u \in Threads :
        /\ t # u
        /\ op[t].kind = "set" /\ pc[t] = "ret"
        /\ pc[u] = "defer" /\ ev[u].gen = ev[t].pregen

\* the slot of every live handle holds the same pointer, to the same live value, after
\* the step as before it
ContentsKept ==
    \A h \in Handles :
        cell[h] = "live"
            => /\ inner'[h] = inner[h]
               /\ allocd'[inner[h]] = allocd[inner[h]]
               /\ mem'[inner[h]] = mem[inner[h]]

\* C13: reclaim() leaves the cell contents unchanged: no step of a reclaim call changes
\* the slot pointer or the value it points to.
C13_ReclaimKeepsContents ==
    [][\A t \in Threads :
         (op[t].kind = "reclaim" \/ op'[t].kind = "reclaim") /\ pc'[t] # pc[t]
             => ContentsKept]_vars

\* C14: a reclaiming call and its _no_reclaim variant have the same effect on the cell
\* contents: the one step by which they differ, the flush of an update or set call,
\* changes neither the slot pointer nor the value it points to.
C14_NoReclaimSameContents ==
    [][\A t \in Threads :
         op[t].kind \in {"update", "set"} /\ pc[t] = "flush" /\ pc'[t] # "flush"
             => ContentsKept]_vars

\* the pointers waiting in a bag or in the global queue for their deferred into_owned
Pending ==
    UNION {Range(local[t].bag) : t \in Threads}
      \cup UNION {Range(global.queue[i].items) : i \in 1..Len(global.queue)}

\* a live heap value that no slot points to, that no call holds as its new value or as
\* the pointer it is about to defer, and whose destruction is not pending
Leaked(a) ==
    /\ allocd[a]
    /\ \A h \in Handles : cell[h] = "live" => inner[h] # a
    /\ \A t \in Threads : pc[t] = "cas" => newp[t] # a
    /\ \A t \in Threads : pc[t] = "defer" => r[t] # a
    /\ a \notin Pending

\* C15: every retired value is eventually freed when reclaim keeps being called; so no
\* superseded value is ever left alive with no deferred destruction pending, which no
\* later reclaim could free.
C15_RetiredEventuallyFreed == \A a \in Addr : ~Leaked(a)

\* C16: a call returns an error only when the invocation of f it ended with returned
\* one, and it returns that error; a failed compare_and_set leaves the call running,
\* and update with an infallible closure never returns an error.
C16_OnlyClosureError ==
    \A t \in Threads :
        /\ pc[t] = "ret" /\ result[t] = "err"
             => /\ op[t].kind = "update"
                /\ calls[t] > 0
                /\ ~Apply(op[t].fn, arg[t]).ok
                /\ err[t] = Apply(op[t].fn, arg[t]).val
        /\ pc[t] # "idle" /\ op[t].kind = "update" /\ op[t].fn = "inc" => result[t] # "err"
        /\ pc[t] \in {"load", "call", "cas"} => result[t] = "none"

\* a call whose compare_and_set failed and whose closure then returned an error
C16_Witness ==
    \E t \in Threads : pc[t] = "ret" /\ result[t] = "err" /\ fails[t] > 0 /\ err[t] # 0

\* C17: f is invoked once per attempt: an update call that succeeds after k failed
\* compare_and_set has invoked f k + 1 times, and every invocation was on the value the
\* slot held at that attempt's load.
C17_OneCallPerAttempt ==
    \A t \in Threads :
        /\ op[t].kind = "update" /\ pc[t] = "ret" /\ result[t] = "ok"
             => calls[t] = fails[t] + 1
        /\ op[t].kind = "update" /\ pc[t] \in {"cas", "defer", "ret"} /\ calls[t] > 0
             => arg[t] = loadVal[t]

\* C18: a failed compare_and_set has no effect on shared state: the slot, its value and
\* the deferred destructions stay as they were; the new value of the attempt, which no
\* slot and no other thread's pointer ever referred to, is destroyed there and then,
\* once; and the call goes back to its load.
C18_FailedCasNoEffect ==
    [][\A t \in Threads :
         pc[t] = "cas" /\ pc'[t] # "cas" /\ ~CasSucceeds(inner[op[t].h], shared[t])
             => /\ pc'[t] = "load"
                /\ inner' = inner /\ gen' = gen /\ val' = val
                /\ global' = global /\ local' = local
                /\ allocd[newp[t]] /\ ~allocd'[newp[t]]
                /\ \A a \in Addr \ {newp[t]} : allocd'[a] = allocd[a]
                /\ \A h \in Handles : inner[h] # newp[t]
                /\ \A u \in Threads : ref[u] # newp[t]
                /\ \A u \in Threads \ {t} : shared[u] # newp[t]]_vars

\* every deferred destruction that has not run yet, in one sequence
PendingSeq == Flatten(global.queue) \o local["t1"].bag \o local["t2"].bag

\* C19: the value a successful update or set supersedes is handed to guard.defer by
\* that call, once, and the value a slot points to is neither awaiting its deferred
\* destruction nor freed.
C19_RetireBookkeeping ==
    /\ \A t \in Threads : pc[t] = "defer" /\ op[t].kind = "update" => r[t] = shared[t]
    /\ \A h \in Handles :
          cell[h] = "live" => inner[h] \notin Pending /\ allocd[inner[h]]
    /\ \A a \in Addr : ~Leaked(a)
    /\ \A i, j \in 1..Len(PendingSeq) : i # j => PendingSeq[i] # PendingSeq[j]

\* C20: no ABA: the compare_and_set of an update succeeds only when no update or set
\* has replaced the slot since that attempt's load.
C20_NoABA ==
    \A t \in Threads : ev[t].kind = "update" => ev[t].pregen = loadGen[t]

====
